---- MODULE Spec2Model ----
(***************************************************************************)
(* Portfolio photo metadata store and its mutation tools:                  *)
(*   - the photos table (schema.sql),                                      *)
(*   - the interactive add tool (add-photo.ts),                            *)
(*   - the CSV import tool (import-photos-csv.ts),                         *)
(*   - the CSV update tool (update-photos-csv.ts),                         *)
(*   - the shared validation rules (shared/validation.ts).                 *)
(* Text is a sequence of one-character strings, so that trim, toLowerCase, *)
(* endsWith and parseInt are computed the way the code computes them.      *)
(***************************************************************************)
EXTENDS Integers, Sequences, FiniteSets, TLC

\* ------------------------------------------------------------------ bounds
\* Largest number of data rows of a CSV file.
MaxRows == 2
\* Largest number of tool invocations (the clock ticks once per invocation).
MaxClock == 2
\* The most rows a table the pages read holds.
MaxStored == 8
\* the rows of a table the grouping queries read
MaxShaped == 4
\* the rows of a table the migration and the validation run on
MaxMigrated == 3
\* the photos of one call of processPhotos
MaxPhotos == 11
\* the positions, in that call, of the photo that has no image file, of the
\* vector drawing, of the photo whose import may fail and of the photo whose
\* lightbox image may fail to be generated
MissingAt == 2
SvgAt == 4
FailingAt == 3
UnoptimisedAt == 1

\* -------------------------------------------------------------------- text
WS == {" "}

RECURSIVE TrimLeft(_)
TrimLeft(s) == IF s = <<>> THEN s
               ELSE IF Head(s) \in WS THEN TrimLeft(Tail(s)) ELSE s

RECURSIVE TrimRight(_)
TrimRight(s) == IF s = <<>> THEN s
                ELSE IF s[Len(s)] \in WS THEN TrimRight(SubSeq(s, 1, Len(s) - 1)) ELSE s

\* String.prototype.trim
Trim(s) == TrimRight(TrimLeft(s))

LowerChar(c) == CASE c = "J" -> "j" [] c = "P" -> "p" [] c = "G" -> "g" [] OTHER -> c

\* String.prototype.toLowerCase
ToLowerCase(s) == [i \in 1..Len(s) |-> LowerChar(s[i])]

\* String.prototype.endsWith
EndsWith(s, suf) == /\ Len(s) >= Len(suf)
                    /\ SubSeq(s, Len(s) - Len(suf) + 1, Len(s)) = suf

Digits == <<"0", "1", "2", "3", "4", "5", "6", "7", "8", "9">>
IsDigit(c) == \E i \in 1..Len(Digits) : Digits[i] = c
DigitVal(c) == (CHOOSE i \in 1..Len(Digits) : Digits[i] = c) - 1

RECURSIVE LeadingDigits(_)
LeadingDigits(s) == IF s = <<>> \/ ~IsDigit(Head(s)) THEN <<>>
                    ELSE <<Head(s)>> \o LeadingDigits(Tail(s))

RECURSIVE DigitsValue(_)
DigitsValue(ds) == IF ds = <<>> THEN 0
                   ELSE DigitsValue(SubSeq(ds, 1, Len(ds) - 1)) * Len(Digits)
                        + DigitVal(ds[Len(ds)])

\* parseInt(s): <<>> stands for NaN, <<n>> for the integer n.  Leading white
\* space is skipped, an optional sign is read, then the longest run of digits;
\* whatever follows the digits is ignored.
ParseInt(s) ==
  LET t    == TrimLeft(s)
      neg  == t # <<>> /\ Head(t) = "-"
      body == IF t # <<>> /\ Head(t) \in {"-", "+"} THEN Tail(t) ELSE t
      ds   == LeadingDigits(body)
  IN IF ds = <<>> THEN <<>>
     ELSE <<IF neg THEN 0 - DigitsValue(ds) ELSE DigitsValue(ds)>>

IsNaN(p) == p = <<>>

\* ----------------------------------------------------------- text literals
Empty  == <<>>
Blank  == <<" ">>
ExtJpg  == <<".", "j", "p", "g">>
ExtJpeg == <<".", "j", "p", "e", "g">>
ExtPng  == <<".", "p", "n", "g">>
ExtWebp == <<".", "w", "e", "b", "p">>
ExtAvif == <<".", "a", "v", "i", "f">>
VALID_EXTENSIONS == {ExtJpg, ExtJpeg, ExtPng, ExtWebp, ExtAvif}

Nature  == <<"n", "a", "t", "u", "r", "e">>
Street  == <<"s", "t", "r", "e", "e", "t">>
Concert == <<"c", "o", "n", "c", "e", "r", "t">>
Other   == <<"o", "t", "h", "e", "r">>
VALID_CATEGORIES == {Nature, Street, Concert}

FileA   == <<"a">> \o ExtJpg
FileB   == <<"b", ".", "J", "P", "G">>
FileGif == <<"c", ".", "g", "i", "f">>

Caption1 == <<"x">>
Caption2 == <<"y">>
CaptionPadded == <<" ", "x">>
Location1 == <<"l">>
Location2 == <<"m">>
Country1 == <<"k">>
Country2 == <<"q">>

Sep == <<"/">>
\* join(process.cwd(), 'src', 'images', 'photography'), from the project root
IMAGES_BASE ==
  <<"/", "s", "r", "c", "/", "i", "m", "a", "g", "e", "s", "/", "p", "h", "o", "t", "o", "g", "r", "a", "p", "h", "y">>

\* path.join(IMAGES_BASE, category, filename)
PhotoPath(category, filename) == IMAGES_BASE \o Sep \o category \o Sep \o filename

\* The asset files present on disk (the tools only read the file system):
\* a.jpg lies under nature/ only, b.JPG under street/ only.
AssetFiles == {PhotoPath(Nature, FileA), PhotoPath(Street, FileB)}

\* fs.existsSync
ExistsSync(path) == path \in AssetFiles

\* ----------------------------------------------------------------- columns
TextColumns     == {"filename", "category", "caption", "location", "country"}
FeaturedColumns == {"homepage_featured", "category_featured", "country_featured"}
RequiredText    == {"caption", "location", "country"}

\* A CSV record is a function from the column names it holds to cell text; a
\* record shorter than the header lacks the trailing columns (csv-parse with
\* columns: true, relax_column_count: true), which reads as undefined.
\* Opt(row, col) is row[col] as an optional value: <<>> undefined, <<v>> v.
Opt(row, col) == IF col \in DOMAIN row THEN <<row[col]>> ELSE <<>>

\* !value?.trim()
Falsy(v) == v = <<>> \/ Trim(v[1]) = Empty

\* ----------------------------------------------------- shared/validation.ts
Err(rowNum, field, message) == [row |-> rowNum, field |-> field, message |-> message]

validateFilename(filename, rowNum) ==
  IF Falsy(filename) THEN <<Err(rowNum, "filename", "required")>>
  ELSE IF ~ \E ext \in VALID_EXTENSIONS : EndsWith(ToLowerCase(filename[1]), ext)
       THEN <<Err(rowNum, "filename", "extension")>>
       ELSE <<>>

validateCategory(category, rowNum, required) ==
  IF Falsy(category)
  THEN IF required THEN <<Err(rowNum, "category", "required")>> ELSE <<>>
  ELSE IF category[1] \notin VALID_CATEGORIES
       THEN <<Err(rowNum, "category", "enum")>>
       ELSE <<>>

validateRequiredField(value, fieldName, rowNum) ==
  IF Falsy(value) THEN <<Err(rowNum, fieldName, "required")>> ELSE <<>>

FeaturedRange(col) == IF col = "category_featured" THEN 0..4 ELSE {0, 1}

\* validateHomepageFeatured, validateCategoryFeatured, validateCountryFeatured
validateFeatured(col, value, rowNum) ==
  IF Falsy(value) THEN <<>>
  ELSE LET parsed == ParseInt(Trim(value[1]))
       IN IF IsNaN(parsed) \/ parsed[1] \notin FeaturedRange(col)
          THEN <<Err(rowNum, col, "range")>>
          ELSE <<>>

validatePhotoExists(filename, category, rowNum) ==
  IF Falsy(filename) \/ Falsy(category) THEN <<>>
  ELSE IF category[1] \notin VALID_CATEGORIES THEN <<>>
  ELSE IF ~ExistsSync(PhotoPath(category[1], Trim(filename[1])))
       THEN <<Err(rowNum, "filename", "file not found")>>
       ELSE <<>>

\* requiredColumns.filter(col => !(col in firstRow))
validateRequiredColumns(firstRow, requiredColumns) ==
  {col \in requiredColumns : col \notin DOMAIN firstRow}

\* parseFeaturedField: 0 for an empty or unparsable cell
parseFeaturedField(value) ==
  IF Falsy(value) THEN 0
  ELSE LET parsed == ParseInt(Trim(value[1]))
       IN IF IsNaN(parsed) THEN 0 ELSE parsed[1]

\* -------------------------------------------------------------- schema.sql
\* A value handed to SQLite for a featured column is <<>> (NULL) or <<n>>;
\* text columns are never handed NULL by the tools.
NULL == <<>>

\* filename TEXT UNIQUE NOT NULL: no other row of the table holds the name.
UniqueFilename(table, id, filename) ==
  \A j \in 1..Len(table) : j # id => table[j].filename # filename

ColumnOkAnyCategory(col, v) ==
  CASE col \in RequiredText -> Len(v) > 0
    [] col \in FeaturedColumns -> v # NULL /\ v[1] \in FeaturedRange(col)
    [] OTHER -> TRUE

\* The column constraints of CREATE TABLE photos.
ColumnOk(col, v) ==
  CASE col = "category" -> v \in VALID_CATEGORIES
    [] col \in RequiredText -> Len(v) > 0
    [] col \in FeaturedColumns -> v # NULL /\ v[1] \in FeaturedRange(col)
    [] OTHER -> TRUE

\* The value kept in the table for a value handed to SQLite.
Stored(col, v) == IF col \in FeaturedColumns THEN v[1] ELSE v

InsertColumns == TextColumns \cup FeaturedColumns

\* INSERT INTO photos (...) VALUES (...): the table after the insert, or the
\* table unchanged with ok = FALSE when a constraint fails.  id is the next
\* AUTOINCREMENT value; created_at and updated_at default to datetime('now').
SqlInsert(table, vals, now) ==
  IF /\ \A col \in InsertColumns : ColumnOk(col, vals[col])
     /\ UniqueFilename(table, 0, vals.filename)
  THEN [ok |-> TRUE,
        table |-> Append(table,
           [c \in InsertColumns \cup {"id", "created_at", "updated_at"} |->
              CASE c = "id" -> Len(table) + 1
                [] c \in {"created_at", "updated_at"} -> now
                [] OTHER -> Stored(c, vals[c])])]
  ELSE [ok |-> FALSE, table |-> table]

\* SELECT id FROM photos WHERE filename = ?
SelectByFilename(table, filename) ==
  {j \in 1..Len(table) : table[j].filename = filename}

\* SELECT id FROM photos WHERE id = ?
SelectById(table, id) == {j \in 1..Len(table) : table[j].id = id}

\* UPDATE photos SET <fields>, updated_at = datetime('now') WHERE id IN ids,
\* followed by the trigger update_photos_timestamp.
SqlUpdate(table, ids, fields, vals, now) ==
  IF \A j \in ids :
       /\ \A col \in fields : ColumnOk(col, vals[col])
       /\ "filename" \in fields =>
             /\ UniqueFilename(table, j, vals.filename)
             /\ Cardinality(ids) <= 1
  THEN [ok |-> TRUE,
        table |-> [j \in 1..Len(table) |->
           IF j \in ids
           THEN [c \in DOMAIN table[j] |->
                   CASE c \in fields -> Stored(c, vals[c])
                     [] c = "updated_at" -> now
                     [] OTHER -> table[j][c]]
           ELSE table[j]]]
  ELSE [ok |-> FALSE, table |-> table]

\* ------------------------------------------------------------- tool inputs
\* The CSV records and prompt answers the tools are run on.
Rec(f, c, cap, loc, cty) ==
  [filename |-> f, category |-> c, caption |-> cap, location |-> loc, country |-> cty]

Featured(hf, cf, cof) ==
  [homepage_featured |-> hf, category_featured |-> cf, country_featured |-> cof]

\* Two records side by side (the columns of a and then those of b).
Join(a, b) == [c \in DOMAIN a \cup DOMAIN b |-> IF c \in DOMAIN a THEN a[c] ELSE b[c]]

ImportRecords ==
  { Join(Rec(FileA, Nature, Caption1, Location1, Country1),
         [category_featured |-> <<"1">>]),
    Join(Rec(FileB, Street, Caption2, Location2, Country2),
         Featured(<<"1">>, <<"1">>, <<"1">>)),
    Rec(FileGif, Nature, Caption1, Location1, Country1),
    Rec(FileA, Other, Caption1, Location1, Country1),
    Rec(FileA, Nature, Blank, Location1, Country1),
    Join(Rec(FileA, Nature, Caption1, Location1, Country1),
         [homepage_featured |-> <<"1", "x">>]),
    Join(Rec(FileB, Street, Caption2, Location2, Country2),
         Featured(<<"1">>, <<"9">>, <<"1">>)),
    Rec(FileB, Street, Caption2, Empty, Country2),
    [filename |-> FileB, category |-> Street, caption |-> Caption2, location |-> Location2] }

\* All sequences over S of length 0..n.
RECURSIVE SeqsUpTo(_, _)
SeqsUpTo(S, n) ==
  IF n = 0 THEN {<<>>}
  ELSE LET shorter == SeqsUpTo(S, n - 1)
       IN shorter \cup {Append(q, x) : q \in {t \in shorter : Len(t) = n - 1}, x \in S}

ImportFiles == SeqsUpTo(ImportRecords, MaxRows)

\* ---------------------------------------------------------------- state
VARIABLES
  photos,    \* the committed photos table: row id at position id
  tx,        \* the table as the open transaction sees it
  txi,       \* the index of the next CSV record the transaction writes
  pc,        \* where the running tool stands
  op,        \* the running tool: "none", "add", "import", "update"
  rows,      \* the records of the CSV file (or the answers of the prompts)
  dryRun,    \* --dry-run
  errors,    \* the error list the tool printed
  clock,     \* datetime('now'); ticks once per tool run
  pre,       \* the committed table when the tool started
  failure,   \* why the write failed: "none", "constraint", "io"
  variant,   \* the schema generation of the table: "singleton" or "ranked"
  query,     \* the query a page is running, "none" when there is none
  arg,       \* its argument: a category, a country
  result,    \* the rows it has returned so far
  exitCode,  \* the exit status of validate-constraints: <<>> before it ran
  photoList, \* processPhotos: the photos it was called with
  options,   \* processPhotos: its options
  calls,     \* processPhotos: the position of the processPhoto call of each photo
  results,   \* processPhotos: the processed images collected so far
  batchAt,   \* processPhotos: the loop index i
  ppc        \* processPhotos: where it is

\* The state of the tools and the state of the reading side.
mvars == <<tx, txi, pc, op, rows, dryRun, errors, clock, pre, failure>>
pvars == <<photoList, options, calls, results, batchAt, ppc>>
qvars == <<variant, query, arg, result, exitCode, pvars>>
vars == <<photos, mvars, qvars>>

\* processPhotos has not been called.
NotProcessing ==
  /\ photoList = <<>>
  /\ options = [includeLightbox |-> TRUE]
  /\ calls = <<>>
  /\ results = <<>>
  /\ batchAt = 0
  /\ ppc = "none"

Init ==
  /\ photos = <<>>
  /\ tx = <<>>
  /\ txi = 0
  /\ pc = "Idle"
  /\ op = "none"
  /\ rows = <<>>
  /\ dryRun = FALSE
  /\ errors = <<>>
  /\ clock = 0
  /\ pre = <<>>
  /\ failure = "none"
  /\ variant = "singleton"
  /\ query = "none"
  /\ arg = Empty
  /\ result = <<>>
  /\ exitCode = <<>>
  /\ NotProcessing

\* The tool is started: a new process, a later time.
Begin(tool, input, dry) ==
  /\ pc = "Idle"
  /\ clock < MaxClock
  /\ pc' = "Received"
  /\ op' = tool
  /\ rows' = input
  /\ dryRun' = dry
  /\ clock' = clock + 1
  /\ pre' = photos
  /\ errors' = <<>>
  /\ failure' = "none"
  /\ UNCHANGED <<photos, tx, txi, qvars>>

\* process.exit(1) after printing the errors; nothing was written.
Reject(errs) ==
  /\ pc' = "Rejected"
  /\ errors' = errs
  /\ UNCHANGED <<photos, tx, txi, op, rows, dryRun, clock, pre, failure, qvars>>

Goto(next) ==
  /\ pc' = next
  /\ UNCHANGED <<photos, tx, txi, op, rows, dryRun, errors, clock, pre, failure, qvars>>

\* db.transaction(() => { ... }): the row writes run between BEGIN and COMMIT.
WritesAutocommit == FALSE
WritesInTransaction == TRUE

\* BEGIN
BeginTransaction ==
  /\ pc' = "Committing"
  /\ tx' = photos
  /\ txi' = 1
  /\ UNCHANGED <<photos, op, rows, dryRun, errors, clock, pre, failure, qvars>>

StatementKeepsPartial(res, thrown) ==
  IF res.ok /\ ~thrown
  THEN /\ tx' = res.table
       /\ txi' = txi + 1
       /\ UNCHANGED <<photos, pc, op, rows, dryRun, errors, clock, pre, failure, qvars>>
  ELSE /\ pc' = "RolledBack"
       /\ failure' = IF thrown THEN "io" ELSE "constraint"
       /\ photos' = tx
       /\ UNCHANGED <<tx, txi, op, rows, dryRun, errors, clock, pre, qvars>>

\* One statement of the transaction function ran: res is its result, thrown
\* tells whether the driver threw for a reason other than a constraint.  A
\* failed statement throws, the transaction rolls back and the tool exits.
Statement(res, thrown) ==
  IF res.ok /\ ~thrown
  THEN /\ tx' = res.table
       /\ txi' = txi + 1
       /\ photos' = IF WritesInTransaction THEN photos ELSE res.table
       /\ UNCHANGED <<pc, op, rows, dryRun, errors, clock, pre, failure, qvars>>
  ELSE /\ pc' = "RolledBack"
       /\ failure' = IF thrown THEN "io" ELSE "constraint"
       /\ tx' = photos
       /\ UNCHANGED <<photos, txi, op, rows, dryRun, errors, clock, pre, qvars>>

\* COMMIT
Commit ==
  /\ pc = "Committing"
  /\ op \in {"import", "update"}
  /\ txi > Len(rows)
  /\ photos' = tx
  /\ pc' = "Committed"
  /\ UNCHANGED <<tx, txi, op, rows, dryRun, errors, clock, pre, failure, qvars>>

\* The process ends.
Exit ==
  /\ pc \in {"Committed", "Rejected", "DryRun", "Cancelled", "RolledBack"}
  /\ pc' = "Idle"
  /\ op' = "none"
  /\ rows' = <<>>
  /\ dryRun' = FALSE
  /\ errors' = <<>>
  /\ pre' = photos
  /\ failure' = "none"
  /\ tx' = photos
  /\ txi' = 0
  /\ UNCHANGED <<photos, clock, qvars>>

\* ------------------------------------------------------ import-photos-csv.ts
\* validateRow of the import tool; rowIndex counts from 0.
importValidateRow(row, rowIndex) ==
  LET rowNum == rowIndex + 2
  IN validateFilename(Opt(row, "filename"), rowNum)
     \o validateCategory(Opt(row, "category"), rowNum, TRUE)
     \o validateRequiredField(Opt(row, "caption"), "caption", rowNum)
     \o validateRequiredField(Opt(row, "location"), "location", rowNum)
     \o validateRequiredField(Opt(row, "country"), "country", rowNum)
     \o validateFeatured("homepage_featured", Opt(row, "homepage_featured"), rowNum)
     \o validateFeatured("category_featured", Opt(row, "category_featured"), rowNum)
     \o validateFeatured("country_featured", Opt(row, "country_featured"), rowNum)
     \o validatePhotoExists(Opt(row, "filename"), Opt(row, "category"), rowNum)

RECURSIVE importValidateRows(_, _)
importValidateRows(records, n) ==
  IF n = 0 THEN <<>>
  ELSE importValidateRows(records, n - 1) \o importValidateRow(records[n], n - 1)

ImportRequiredColumns == {"filename", "category", "caption", "location", "country"}

\* parseCSV of the import tool: fatal when the file is empty or lacks a
\* required column (the tool exits before validating any row).
importParseCSV(records) ==
  IF records = <<>> THEN [fatal |-> TRUE, errors |-> <<Err(0, "csv", "empty")>>]
  ELSE LET missing == validateRequiredColumns(records[1], ImportRequiredColumns)
       IN IF missing # {}
          THEN [fatal |-> TRUE,
                errors |-> <<Err(0, CHOOSE c \in missing : TRUE, "missing column")>>]
          ELSE [fatal |-> FALSE, errors |-> importValidateRows(records, Len(records))]

\* The first loop of checkDuplicates: a record whose trimmed filename was seen
\* in an earlier record.
RECURSIVE DuplicatesInCsv(_, _)
DuplicatesInCsv(records, n) ==
  IF n = 0 THEN <<>>
  ELSE LET fn == Opt(records[n], "filename")
       IN DuplicatesInCsv(records, n - 1) \o
          (IF ~Falsy(fn) /\ \E m \in 1..(n - 1) :
                 LET fm == Opt(records[m], "filename")
                 IN ~Falsy(fm) /\ Trim(fm[1]) = Trim(fn[1])
           THEN <<Err(n + 1, "filename", "duplicate in csv")>> ELSE <<>>)

\* The second loop of checkDuplicates: a record whose trimmed filename is in
\* the table.
RECURSIVE DuplicatesInDb(_, _, _)
DuplicatesInDb(records, table, n) ==
  IF n = 0 THEN <<>>
  ELSE LET fn == Opt(records[n], "filename")
       IN DuplicatesInDb(records, table, n - 1) \o
          (IF ~Falsy(fn) /\ SelectByFilename(table, Trim(fn[1])) # {}
           THEN <<Err(n + 1, "filename", "exists in database")>> ELSE <<>>)

checkDuplicatesCsvOnly(records, table) == DuplicatesInCsv(records, Len(records))
checkDuplicates(records, table) ==
  DuplicatesInCsv(records, Len(records)) \o DuplicatesInDb(records, table, Len(records))

\* The values insert.run is given for a record.
importValues(row) ==
  [c \in InsertColumns |->
     IF c \in FeaturedColumns THEN <<parseFeaturedField(Opt(row, c))>>
     ELSE Trim(row[c])]

\* if (validationErrors.length > 0) { ...; process.exit(1) }
importStopsOnErrorsNever(errs) == FALSE
importStopsOnErrors(errs) == Len(errs) > 0

StartImport ==
  /\ pc = "Idle"
  /\ \E file \in ImportFiles, dry \in BOOLEAN : Begin("import", file, dry)

\* parseCSV and the check of its errors
ImportValidate ==
  /\ pc = "Received" /\ op = "import"
  /\ LET parsed == importParseCSV(rows)
     IN IF parsed.fatal \/ importStopsOnErrors(parsed.errors)
        THEN Reject(parsed.errors)
        ELSE Goto("Validating")

\* checkDuplicates and the check of its errors
ImportCheckDuplicates ==
  /\ pc = "Validating" /\ op = "import"
  /\ LET dup == checkDuplicates(rows, photos)
     IN IF Len(dup) > 0 THEN Reject(dup) ELSE Goto("AllValid")

ImportDryRun ==
  /\ pc = "AllValid" /\ op = "import" /\ dryRun
  /\ Goto("DryRun")

\* The confirmation prompt, answered no.
ImportCancel ==
  /\ pc = "AllValid" /\ op = "import" /\ ~dryRun
  /\ Goto("Cancelled")

ImportBeginOnDryRun ==
  /\ pc = "AllValid" /\ op = "import"
  /\ BeginTransaction

\* The confirmation prompt, answered yes: the transaction begins.
ImportBegin ==
  /\ pc = "AllValid" /\ op = "import" /\ ~dryRun
  /\ BeginTransaction

\* insert.run for the next record
ImportWrite ==
  /\ pc = "Committing" /\ op = "import"
  /\ txi <= Len(rows)
  /\ \E thrown \in BOOLEAN :
       Statement(SqlInsert(tx, importValues(rows[txi]), clock), thrown)

\* ------------------------------------------------------------ add-photo.ts
AddAnswers ==
  [filename : {FileA, FileGif},
   category : {Nature, Street},
   caption : {Caption1, Blank},
   location : {Location1},
   country : {Country1},
   homepage_featured : BOOLEAN,
   add_category_featured : {FALSE},
   category_featured : {0},
   country_featured : {FALSE},
   confirm : BOOLEAN]

\* validate of the filename prompt: non-empty and /\.(jpg|jpeg|png|webp|avif)$/i
PromptFilenameOk(val) ==
  /\ val # Empty
  /\ \E ext \in VALID_EXTENSIONS : EndsWith(ToLowerCase(val), ext)

\* validate of the caption, location and country prompts: val?.trim()
PromptRequiredOk(val) == Trim(val) # Empty

\* validate of the category_featured prompt
PromptCategoryFeaturedOk(val) == val \in 0..4

\* The prompts ask again until every validate accepts, and the category
\* prompt is a select over the three categories.
PromptsAccept(a) ==
  /\ PromptFilenameOk(a.filename)
  /\ a.category \in VALID_CATEGORIES
  /\ PromptRequiredOk(a.caption)
  /\ PromptRequiredOk(a.location)
  /\ PromptRequiredOk(a.country)
  /\ a.add_category_featured => PromptCategoryFeaturedOk(a.category_featured)

\* The values insert.run is given for the answers.
addValues(a) ==
  [c \in InsertColumns |->
     CASE c = "homepage_featured" -> <<IF a.homepage_featured THEN 1 ELSE 0>>
       [] c = "category_featured" ->
            <<IF a.add_category_featured THEN a.category_featured ELSE 0>>
       [] c = "country_featured" -> <<IF a.country_featured THEN 1 ELSE 0>>
       [] OTHER -> a[c]]

StartAdd ==
  /\ pc = "Idle"
  /\ \E a \in AddAnswers : PromptsAccept(a) /\ Begin("add", <<a>>, FALSE)

\* if (!answers.confirm) return
AddCancel ==
  /\ pc = "Received" /\ op = "add"
  /\ ~rows[1].confirm
  /\ Goto("Cancelled")

\* SELECT id FROM photos WHERE filename = ?; exit when a row exists
AddCheckExisting ==
  /\ pc = "Received" /\ op = "add"
  /\ rows[1].confirm
  /\ IF SelectByFilename(photos, rows[1].filename) # {}
     THEN Reject(<<Err(0, "filename", "exists in database")>>)
     ELSE Goto("AllValid")

\* insert.run: one statement, committed on its own
AddInsert ==
  /\ pc = "AllValid" /\ op = "add"
  /\ \E thrown \in BOOLEAN :
       LET res == SqlInsert(photos, addValues(rows[1]), clock)
       IN IF res.ok /\ ~thrown
          THEN /\ photos' = res.table
               /\ tx' = res.table
               /\ pc' = "Committed"
               /\ UNCHANGED <<txi, op, rows, dryRun, errors, clock, pre, failure, qvars>>
          ELSE /\ pc' = "RolledBack"
               /\ failure' = IF thrown THEN "io" ELSE "constraint"
               /\ UNCHANGED <<photos, tx, txi, op, rows, dryRun, errors, clock, pre, qvars>>

\* ------------------------------------------------------ update-photos-csv.ts
Id(i) == [id |-> i]
Fn(f) == [filename |-> f]
Set(col, v) == [c \in {col} |-> v]

UpdateRecords ==
  { Join(Id(<<"1">>), Set("caption", Caption2)),
    Join(Id(<<"2">>), Join(Set("caption", Caption2), Set("location", Location1))),
    Join(Fn(FileA), Set("caption", Caption2)),
    Join(Id(<<"1">>), Join(Fn(FileB), Set("caption", Caption2))),
    Join(Id(<<"1">>), Set("category", Street)),
    Join(Id(<<"1">>), Set("category", Empty)),
    Join(Id(<<"9">>), Set("caption", Caption2)),
    Join(Id(<<"x">>), Set("caption", Caption2)),
    Join(Id(<<"1">>), Join(Set("caption", Blank), Set("location", Empty))),
    Join(Id(<<"1">>), Set("category", Other)),
    Join(Id(<<"1">>), Set("homepage_featured", Empty)),
    Id(<<"1">>),
    Join(Id(Empty), Set("caption", Caption2)) }

UpdateFiles == SeqsUpTo(UpdateRecords, MaxRows)

\* validateRow of the update tool; rowIndex counts from 0.
updateBlankFieldUnchecked(row, col, rowNum, availableColumns) == <<>>
\* if (availableColumns.has(col) && row[col] !== undefined && !row[col]?.trim())
updateBlankField(row, col, rowNum, availableColumns) ==
  IF /\ col \in availableColumns
     /\ Opt(row, col) # <<>>
     /\ Falsy(Opt(row, col))
  THEN <<Err(rowNum, col, "empty")>> ELSE <<>>

updateValidateRow(row, rowIndex, availableColumns) ==
  LET rowNum == rowIndex + 2
      blank(col) == updateBlankField(row, col, rowNum, availableColumns)
  IN IF Falsy(Opt(row, "id")) /\ Falsy(Opt(row, "filename"))
     THEN <<Err(rowNum, "id/filename", "required")>>
     ELSE (IF ~Falsy(Opt(row, "filename"))
           THEN validateFilename(Opt(row, "filename"), rowNum) ELSE <<>>)
          \o (IF ~Falsy(Opt(row, "category"))
              THEN validateCategory(Opt(row, "category"), rowNum, FALSE) ELSE <<>>)
          \o blank("caption")
          \o blank("location")
          \o blank("country")
          \o validateFeatured("homepage_featured", Opt(row, "homepage_featured"), rowNum)
          \o validateFeatured("category_featured", Opt(row, "category_featured"), rowNum)
          \o validateFeatured("country_featured", Opt(row, "country_featured"), rowNum)
          \o (IF /\ ~Falsy(Opt(row, "filename"))
                 /\ ~Falsy(Opt(row, "category"))
                 /\ row.category \in VALID_CATEGORIES
                 /\ ~ExistsSync(PhotoPath(row.category, Trim(row.filename)))
              THEN <<Err(rowNum, "filename", "file not found")>> ELSE <<>>)

RECURSIVE updateValidateRows(_, _, _)
updateValidateRows(records, availableColumns, n) ==
  IF n = 0 THEN <<>>
  ELSE updateValidateRows(records, availableColumns, n - 1)
       \o updateValidateRow(records[n], n - 1, availableColumns)

\* new Set(Object.keys(records[0]))
AvailableColumns(records) == DOMAIN records[1]

\* parseCSV of the update tool: fatal when the file is empty or holds neither
\* an id nor a filename column.
updateParseCSV(records) ==
  IF records = <<>> THEN [fatal |-> TRUE, errors |-> <<Err(0, "csv", "empty")>>]
  ELSE IF AvailableColumns(records) \cap {"id", "filename"} = {}
       THEN [fatal |-> TRUE, errors |-> <<Err(0, "id/filename", "missing column")>>]
       ELSE [fatal |-> FALSE,
             errors |-> updateValidateRows(records, AvailableColumns(records),
                                           Len(records))]

TargetsFilenameFirst(table, row) ==
  IF ~Falsy(Opt(row, "filename"))
  THEN SelectByFilename(table, Trim(row.filename))
  ELSE IF ~Falsy(Opt(row, "id"))
       THEN LET id == ParseInt(Trim(row.id))
            IN IF IsNaN(id) THEN {} ELSE SelectById(table, id[1])
       ELSE {}

\* The rows a record names: by id when it holds one, otherwise by filename.
Targets(table, row) ==
  IF ~Falsy(Opt(row, "id"))
  THEN LET id == ParseInt(Trim(row.id))
       IN IF IsNaN(id) THEN {} ELSE SelectById(table, id[1])
  ELSE IF ~Falsy(Opt(row, "filename"))
       THEN SelectByFilename(table, Trim(row.filename))
       ELSE {}

checkPhotoExists(row, rowIndex, table) ==
  IF ~Falsy(Opt(row, "id"))
  THEN IF IsNaN(ParseInt(Trim(row.id)))
       THEN <<Err(rowIndex + 2, "id", "not a number")>>
       ELSE IF Targets(table, row) = {}
            THEN <<Err(rowIndex + 2, "id", "not found")>> ELSE <<>>
  ELSE IF ~Falsy(Opt(row, "filename")) /\ Targets(table, row) = {}
       THEN <<Err(rowIndex + 2, "filename", "not found")>> ELSE <<>>

RECURSIVE checkPhotosExistUpTo(_, _, _)
checkPhotosExistUpTo(records, table, n) ==
  IF n = 0 THEN <<>>
  ELSE checkPhotosExistUpTo(records, table, n - 1)
       \o checkPhotoExists(records[n], n - 1, table)

checkPhotosExist(records, table) == checkPhotosExistUpTo(records, table, Len(records))

\* Updateable columns (exclude id, filename, created_at)
UpdateableColumnsAndFilename ==
  {"filename", "category", "caption", "location", "country",
   "homepage_featured", "category_featured", "country_featured"}
UpdateableColumns ==
  {"category", "caption", "location", "country",
   "homepage_featured", "category_featured", "country_featured"}

\* buildUpdateOperations for one record: the columns it sets and their values.
buildUpdateOperation(row, availableColumns) ==
  LET fields == {col \in UpdateableColumns \cap availableColumns : col \in DOMAIN row}
  IN [fields |-> fields,
      values |-> [col \in fields |->
         IF col \in FeaturedColumns
         THEN IF Trim(row[col]) # Empty THEN ParseInt(Trim(row[col])) ELSE NULL
         ELSE Trim(row[col])]]

\* if (existenceErrors.length > 0) { ...; process.exit(1) }
updateStopsOnMissing(errs) == Len(errs) > 0

StartUpdate ==
  /\ pc = "Idle"
  /\ \E file \in UpdateFiles, dry \in BOOLEAN : Begin("update", file, dry)

\* parseCSV and the check of its errors
UpdateValidate ==
  /\ pc = "Received" /\ op = "update"
  /\ LET parsed == updateParseCSV(rows)
     IN IF parsed.fatal \/ Len(parsed.errors) > 0
        THEN Reject(parsed.errors)
        ELSE Goto("Validating")

\* checkPhotosExist and the check of its errors
UpdateCheckExist ==
  /\ pc = "Validating" /\ op = "update"
  /\ LET missing == checkPhotosExist(rows, photos)
     IN IF updateStopsOnMissing(missing) THEN Reject(missing) ELSE Goto("AllValid")

UpdateDryRun ==
  /\ pc = "AllValid" /\ op = "update" /\ dryRun
  /\ Goto("DryRun")

\* The confirmation prompt, answered no.
UpdateCancel ==
  /\ pc = "AllValid" /\ op = "update" /\ ~dryRun
  /\ Goto("Cancelled")

\* The confirmation prompt, answered yes: the transaction begins.
UpdateBegin ==
  /\ pc = "AllValid" /\ op = "update" /\ ~dryRun
  /\ BeginTransaction

\* The transaction function for the next record: nothing when the record sets
\* no column, otherwise one UPDATE.
UpdateWrite ==
  /\ pc = "Committing" /\ op = "update"
  /\ txi <= Len(rows)
  /\ LET o == buildUpdateOperation(rows[txi], AvailableColumns(rows))
     IN IF o.fields = {}
        THEN /\ txi' = txi + 1
             /\ UNCHANGED <<photos, tx, pc, op, rows, dryRun, errors, clock, pre, failure, qvars>>
        ELSE \E thrown \in BOOLEAN :
               Statement(SqlUpdate(tx, Targets(tx, rows[txi]), o.fields, o.values, clock),
                         thrown)

Next ==
  \/ StartAdd
  \/ AddCancel
  \/ AddCheckExisting
  \/ AddInsert
  \/ StartImport
  \/ ImportValidate
  \/ ImportCheckDuplicates
  \/ ImportDryRun
  \/ ImportCancel
  \/ ImportBegin
  \/ ImportWrite
  \/ StartUpdate
  \/ UpdateValidate
  \/ UpdateCheckExist
  \/ UpdateDryRun
  \/ UpdateCancel
  \/ UpdateBegin
  \/ UpdateWrite
  \/ Commit
  \/ Exit

Spec == Init /\ [][Next]_vars

\* '/photography/', '/src/photography/' and '/images/photography/'
PHOTOGRAPHY_URL == <<"/", "p", "h", "o", "t", "o", "g", "r", "a", "p", "h", "y", "/">>
SRC_PHOTOGRAPHY == <<"/", "s", "r", "c", "/", "p", "h", "o", "t", "o", "g", "r", "a", "p", "h", "y", "/">>
EXPORT_URL == <<"/", "i", "m", "a", "g", "e", "s", "/", "p", "h", "o", "t", "o", "g", "r", "a", "p", "h", "y", "/">>

\* --------------------------------------------------------------- db queries
\* getPhotoAlt: `${photo.country}, ${photo.location} - ${photo.caption}`
getPhotoAltCaptionOnly(photo) == photo.caption
getPhotoAlt(photo) ==
  photo.country \o <<",", " ">> \o photo.location \o <<" ", "-", " ">> \o photo.caption

\* getPhotoPath: `/photography/${photo.category}/${photo.filename}`
getPhotoPath(photo) ==
  PHOTOGRAPHY_URL \o photo.category \o Sep \o photo.filename

\* photoToPortfolioImage(photo).src of the JSON export
photoToPortfolioImageSrc(photo) ==
  EXPORT_URL \o photo.category \o Sep \o photo.filename

\* String.prototype.replace(pattern, replacement) with a string pattern: the
\* first occurrence only.
RECURSIVE Replace(_, _, _)
Replace(s, pattern, replacement) ==
  IF Len(s) < Len(pattern) THEN s
  ELSE IF SubSeq(s, 1, Len(pattern)) = pattern
       THEN replacement \o SubSeq(s, Len(pattern) + 1, Len(s))
       ELSE <<Head(s)>> \o Replace(Tail(s), pattern, replacement)

\* getImageByPath: the key of import.meta.glob the loader looks the path up
\* under.
imageSrcPath(path) == Replace(path, PHOTOGRAPHY_URL, SRC_PHOTOGRAPHY)

\* processPhoto: the source file the page's image is loaded from.
processPhotoSource(photo) == imageSrcPath(getPhotoPath(photo))

\* SELECT COUNT(*) FROM photos WHERE homepage_featured = 1 (check 1 of
\* validate-constraints): the rows counted.
homepageFeaturedRows(table) ==
  {j \in 1..Len(table) : table[j].homepage_featured = 1}

\* getHomepageFeatured: SELECT * FROM photos WHERE homepage_featured = 1
\* LIMIT 1, with no ORDER BY: the results the query may give, NULL for none.
getHomepageFeatured(table) ==
  IF homepageFeaturedRows(table) = {} THEN {NULL}
  ELSE {table[j] : j \in homepageFeaturedRows(table)}

\* SELECT ... WHERE category = ? AND category_featured = 1 (check 2 of
\* validate-constraints) and the WHERE of getCategoryNavigationPhotos: the
\* rows of a category that carry the navigation priority.
categoryNavigationRows(table, category) ==
  {j \in 1..Len(table) :
     table[j].category = category /\ table[j].category_featured = 1}

\* SELECT DISTINCT country FROM photos
Countries(table) == {table[j].country : j \in 1..Len(table)}

\* SELECT ... WHERE country = ? AND country_featured = 1 (check 3 of
\* validate-constraints) and the WHERE of getCountryFeaturedPhotos.
countryFeaturedRows(table, country) ==
  {j \in 1..Len(table) :
     table[j].country = country /\ table[j].country_featured = 1}

\* ------------------------------------------ the table as the pages read it
\* LIMIT 7 of the ranked homepage query
HomepageSlots == 7

\* A filename of its own for the row with id j.
StoredName(j) == [k \in 1..j |-> "i"] \o ExtJpg

CategoryOf(j) == IF j % 2 = 1 THEN Nature ELSE Street

\* Text under the BINARY collation of the table's columns: characters
\* compare by their code.
CodeOrder ==
  <<" ", ".", "0", "1", "2", "3", "4", "5", "6", "7", "8", "9",
    "A", "B", "C", "D", "E", "F", "G", "H", "I", "J", "K", "L", "M",
    "N", "O", "P", "Q", "R", "S", "T", "U", "V", "W", "X", "Y", "Z", "_",
    "a", "b", "c", "d", "e", "f", "g", "h", "i", "j", "k", "l", "m",
    "n", "o", "p", "q", "r", "s", "t", "u", "v", "w", "x", "y", "z">>

CharCode(c) == CHOOSE i \in 1..Len(CodeOrder) : CodeOrder[i] = c

Sign(n) == IF n < 0 THEN -1 ELSE IF n > 0 THEN 1 ELSE 0

\* -1, 0, 1 as a sorts before, with, after b in ASC; NULL, which is <<>>,
\* sorts before every text.
RECURSIVE TextCompare(_, _)
TextCompare(a, b) ==
  IF a = <<>> THEN (IF b = <<>> THEN 0 ELSE -1)
  ELSE IF b = <<>> THEN 1
  ELSE IF Head(a) = Head(b) THEN TextCompare(Tail(a), Tail(b))
  ELSE Sign(CharCode(Head(a)) - CharCode(Head(b)))

\* The date column holds NULL or a YYYY-MM-DD text, whose order is the order
\* of the days: <<d>> stands for the text of day d.  NULL sorts before every
\* date in ASC.
DateCompare(a, b) ==
  IF a = <<>> THEN (IF b = <<>> THEN 0 ELSE -1)
  ELSE IF b = <<>> THEN 1
  ELSE Sign(a[1] - b[1])

\* CASE WHEN v IS NULL THEN 1 ELSE 0 END
NullFlag(v) == IF v = <<>> THEN 1 ELSE 0

SubA == <<"a">>
SubB == <<"b">>

\* A row of the ranked generation as its import stores it: the two
\* priorities are NULL or a positive number (1..7 for the homepage).
RankedRow(j, featured) ==
  [id |-> j, filename |-> StoredName(j), category |-> CategoryOf(j),
   caption |-> Caption1, location |-> Location1, country |-> Country1,
   homepage_featured |-> IF featured THEN <<((j * 3) % 7) + 1>> ELSE NULL,
   category_featured |-> IF featured THEN <<((j * 2) % 3) + 1>> ELSE NULL,
   created_at |-> 1, updated_at |-> 1]

\* A row of the singleton generation: homepage_featured and country_featured
\* in 0..1, category_featured in 0..4, none of them NULL.
SingletonRow(j, featured) ==
  [id |-> j, filename |-> StoredName(j), category |-> CategoryOf(j),
   caption |-> Caption1, location |-> Location1, country |-> Country1,
   homepage_featured |-> 0,
   category_featured |-> IF featured THEN (j % 4) + 1 ELSE 0,
   country_featured |-> 0,
   created_at |-> 1, updated_at |-> 1]

\* What the pages group rows by: category, country, location, sub_category
\* and date of rows the tools store.
Shape(c, cty, loc, sub, d) ==
  [category |-> c, country |-> cty, location |-> loc, sub_category |-> sub, date |-> d]

Shapes ==
  { Shape(Nature, Country1, Location2, SubB, <<1>>),
    Shape(Nature, Country1, Location1, SubA, <<2>>),
    Shape(Nature, Country1, Location1, NULL, NULL),
    Shape(Nature, Country1, Location2, SubB, NULL),
    Shape(Nature, Country1, Location2, SubB, <<2>>),
    Shape(Street, Country1, Location2, SubA, <<2>>),
    Shape(Concert, Country2, Location1, NULL, <<1>>) }

\* The row with id j of a given shape, in the table's generation; it is on
\* no featured list.
ShapedRow(j, shape, v) ==
  IF v = "ranked"
  THEN [id |-> j, filename |-> StoredName(j), category |-> shape.category,
        caption |-> Caption1, location |-> shape.location,
        country |-> shape.country,
        date |-> shape.date, sub_category |-> shape.sub_category,
        homepage_featured |-> NULL, category_featured |-> NULL,
        created_at |-> 1, updated_at |-> 1]
  ELSE [id |-> j, filename |-> StoredName(j), category |-> shape.category,
        caption |-> Caption1, location |-> shape.location,
        country |-> shape.country,
        homepage_featured |-> 0, category_featured |-> 0,
        country_featured |-> 0,
        created_at |-> 1, updated_at |-> 1]

\* The queries of each generation of db.ts that order rows by a priority
\* column, which has an index.
QueriesOf(v) ==
  IF v = "ranked" THEN {"getHomepageFeaturedRanked", "getCategoryFeatured"}
  ELSE {"getAllCategoryPhotos"}

PriorityQueries ==
  {"getHomepageFeaturedRanked", "getCategoryFeatured", "getAllCategoryPhotos"}

\* The queries of each generation whose rows the pages show in groups.
GroupQueriesOf(v) ==
  IF v = "ranked" THEN {"getAllCategoryPhotosEarlier", "getCountryPhotosEarlier"}
  ELSE {"getCountryPhotos", "getAllCategoryPhotos"}

CategoryQueries ==
  {"getCategoryFeatured", "getAllCategoryPhotos", "getAllCategoryPhotosEarlier"}

CountryQueries == {"getCountryPhotos", "getCountryPhotosEarlier"}

\* The parameter of a query is a string: a category of the enum or another
\* text, a country.
ArgsOf(q) ==
  IF q = "getHomepageFeaturedRanked" THEN {Empty}
  ELSE IF q \in CategoryQueries THEN VALID_CATEGORIES \cup {Other}
  ELSE {Country1, Country2}

\* The WHERE clause of a query.
WhereAnyRow(q, a, row) == TRUE
Where(q, a, row) ==
  CASE q = "getHomepageFeaturedRanked" -> row.homepage_featured # NULL
    [] q = "getCategoryFeatured" ->
         row.category = a /\ row.category_featured # NULL
    [] q = "getAllCategoryPhotos" ->
         row.category = a /\ row.category_featured > 0
    [] q = "getAllCategoryPhotosEarlier" -> row.category = a
    [] q = "getCountryPhotosEarlier" -> row.country = a
    [] q = "getCountryPhotos" -> row.country = a /\ row.category # Concert

\* The ORDER BY ... ASC term of a priority query; NULL sorts before every
\* number, and the priorities the schema allows start at 1.
OrderByNothing(q, row) == 0
OrderBy(q, row) ==
  CASE q = "getHomepageFeaturedRanked" ->
         IF row.homepage_featured = NULL THEN 0 ELSE row.homepage_featured[1]
    [] q = "getCategoryFeatured" ->
         IF row.category_featured = NULL THEN 0 ELSE row.category_featured[1]
    [] q = "getAllCategoryPhotos" -> row.category_featured

\* The order of the index the statement walks: idx_homepage_featured on
\* (homepage_featured), idx_category_featured on (category,
\* category_featured). An entry of an index ends with the rowid of its row,
\* the id column, so entries equal in the indexed columns lie in id order.
IndexOrderWithoutRowid(q, r1, r2) == OrderBy(q, r1) <= OrderBy(q, r2)
IndexOrder(q, r1, r2) ==
  \/ OrderBy(q, r1) < OrderBy(q, r2)
  \/ OrderBy(q, r1) = OrderBy(q, r2) /\ r1.id <= r2.id

\* The terms of the ORDER BY of a query that no index serves, each as the
\* comparison of two rows in it: -1, 0, 1.
SortTermsUngrouped(q, r1, r2) == <<0>>
SortTerms(q, r1, r2) ==
  CASE q = "getAllCategoryPhotosEarlier" ->
         <<Sign(NullFlag(r1.sub_category) - NullFlag(r2.sub_category)),
           TextCompare(r1.sub_category, r2.sub_category),
           0 - DateCompare(r1.date, r2.date)>>
    [] q = "getCountryPhotosEarlier" ->
         <<Sign(NullFlag(r1.location) - NullFlag(r2.location)),
           TextCompare(r1.location, r2.location),
           0 - DateCompare(r1.date, r2.date)>>
    [] q = "getCountryPhotos" ->
         <<Sign(NullFlag(r1.location) - NullFlag(r2.location)),
           TextCompare(r1.location, r2.location)>>

\* The first term that tells two rows apart decides.
RECURSIVE FirstDifference(_)
FirstDifference(terms) ==
  IF terms = <<>> THEN 0
  ELSE IF Head(terms) # 0 THEN Head(terms)
  ELSE FirstDifference(Tail(terms))

\* Row r1 may come out before row r2: by the index for a priority query, by
\* the sort of the ORDER BY otherwise, which leaves rows equal in every term
\* in any order.
Before(q, r1, r2) ==
  IF q \in PriorityQueries THEN IndexOrder(q, r1, r2)
  ELSE FirstDifference(SortTerms(q, r1, r2)) <= 0

\* The LIMIT of a query; the table's size stands for none.
Limit(q, table) ==
  IF q = "getHomepageFeaturedRanked" THEN HomepageSlots ELSE Len(table)

\* The rows the running query has yet to return.
Remaining ==
  {j \in 1..Len(photos) :
     /\ Where(query, arg, photos[j])
     /\ \A k \in 1..Len(result) : result[k].id # j}

\* The running query has returned its last row.
Complete ==
  /\ query # "none"
  /\ Remaining = {} \/ Len(result) >= Limit(query, photos)

\* getAllCountries: SELECT DISTINCT country ... WHERE country IS NOT NULL
getAllCountries(table) == {table[j].country : j \in 1..Len(table)}

\* getAllCategories of the earlier db.ts lists 'other' with the three
\* categories of the current enum.
CategoriesOf(v) ==
  IF v = "ranked" THEN VALID_CATEGORIES \cup {Other} ELSE VALID_CATEGORIES

\* The name of the group a category page shows a row under.
OtherGroup == <<"O", "t", "h", "e", "r">>
GroupName(row) ==
  IF row.sub_category = NULL THEN OtherGroup ELSE row.sub_category

QInit ==
  /\ photos = <<>>
  /\ tx = <<>>
  /\ txi = 0
  /\ pc = "Idle"
  /\ op = "none"
  /\ rows = <<>>
  /\ dryRun = FALSE
  /\ errors = <<>>
  /\ clock = 1
  /\ pre = <<>>
  /\ failure = "none"
  /\ variant \in {"ranked", "singleton"}
  /\ query = "none"
  /\ arg = Empty
  /\ result = <<>>
  /\ exitCode = <<>>
  /\ NotProcessing

\* A row is stored, by the tools of the table's generation.
StoreRow ==
  /\ query = "none"
  /\ Len(photos) < MaxStored
  /\ \E featured \in BOOLEAN :
       photos' = Append(photos,
                        IF variant = "ranked"
                        THEN RankedRow(Len(photos) + 1, featured)
                        ELSE SingletonRow(Len(photos) + 1, featured))
  /\ UNCHANGED <<mvars, qvars>>

\* A row of one of the shapes is stored.
StoreShapedRow ==
  /\ query = "none"
  /\ Len(photos) < MaxShaped
  /\ \E shape \in Shapes :
       photos' = Append(photos, ShapedRow(Len(photos) + 1, shape, variant))
  /\ UNCHANGED <<mvars, qvars>>

\* A page calls a query: getDb().prepare(query).all(...)
RunQuery ==
  /\ query = "none"
  /\ \E q \in QueriesOf(variant) : \E a \in ArgsOf(q) :
       /\ query' = q
       /\ arg' = a
  /\ result' = <<>>
  /\ UNCHANGED <<photos, mvars, variant, exitCode, pvars>>

\* A page calls one of the queries it shows in groups.
RunGroupQuery ==
  /\ query = "none"
  /\ \E q \in GroupQueriesOf(variant) : \E a \in ArgsOf(q) :
       /\ query' = q
       /\ arg' = a
  /\ result' = <<>>
  /\ UNCHANGED <<photos, mvars, variant, exitCode, pvars>>

\* The statement yields its next row: for a priority query the search of the
\* index steps to the next entry of the index that the WHERE accepts, which
\* gives the ORDER BY without a sort; for the others the rows the WHERE
\* accepts come out of the sort of the ORDER BY.
FetchRow ==
  /\ query # "none"
  /\ ~Complete
  /\ \E j \in Remaining :
       /\ \A i \in Remaining : Before(query, photos[j], photos[i])
       /\ result' = Append(result, photos[j])
  /\ UNCHANGED <<photos, mvars, variant, query, arg, exitCode, pvars>>

\* all() returns the rows to the page.
ReturnRows ==
  /\ Complete
  /\ query' = "none"
  /\ arg' = Empty
  /\ result' = <<>>
  /\ UNCHANGED <<photos, mvars, variant, exitCode, pvars>>

QueryNext ==
  \/ StoreRow
  \/ RunQuery
  \/ FetchRow
  \/ ReturnRows

QuerySpec == QInit /\ [][QueryNext]_vars

GroupNext ==
  \/ StoreShapedRow
  \/ RunGroupQuery
  \/ FetchRow
  \/ ReturnRows

GroupSpec == QInit /\ [][GroupNext]_vars

\* ------------------------------------------ validate-constraints.ts
\* A featured cell of a row of either generation: NULL or <<n>>; <<>> also
\* for a column the table does not have. A row of the current table (the one
\* with a country_featured column) holds integers, NOT NULL.
FeaturedCell(row, col) ==
  IF col \notin DOMAIN row THEN NULL
  ELSE IF "country_featured" \in DOMAIN row THEN <<row[col]>> ELSE row[col]

\* SELECT COUNT(*) FROM photos WHERE <col> = 1 [AND <by> = <v>]
CountFlagged(table, col, by, v) ==
  Cardinality({j \in 1..Len(table) :
                 /\ FeaturedCell(table[j], col) = <<1>>
                 /\ by # "" => table[j][by] = v})

\* PRAGMA table_info(photos): the table has a country_featured column.
hasCountryFeatured(v) == v = "singleton"

\* The checks of validateConstraints that set hasErrors.
homepageCheckFails(table) == CountFlagged(table, "homepage_featured", "", Empty) # 1

categoryCheckFails(table) ==
  \E c \in {Nature, Street, Concert} :
    CountFlagged(table, "category_featured", "category", c) # 1

countryCheckAlways(table, v) ==
  \E c \in Countries(table) :
    CountFlagged(table, "country_featured", "country", c) # 1
countryCheckFails(table, v) ==
  /\ hasCountryFeatured(v)
  /\ \E c \in Countries(table) :
       CountFlagged(table, "country_featured", "country", c) # 1

nullCheckFails(table, v) ==
  \E col \in {"homepage_featured", "category_featured"}
             \cup (IF hasCountryFeatured(v) THEN {"country_featured"} ELSE {}) :
    \E j \in 1..Len(table) : FeaturedCell(table[j], col) = NULL

\* process.exit(hasErrors ? 1 : 0)
validateConstraints(table, v) ==
  IF \/ homepageCheckFails(table)
     \/ categoryCheckFails(table)
     \/ countryCheckFails(table, v)
     \/ nullCheckFails(table, v)
  THEN 1 ELSE 0

\* ------------------------------------------------ the schema migration
\* Rows of a table of the earlier generation, and of the current one.
OldRow(c, cty, hf, cf) ==
  [category |-> c, country |-> cty, homepage_featured |-> hf, category_featured |-> cf]

OldRows ==
  { OldRow(Nature, Country1, <<1>>, <<1>>),
    OldRow(Street, Country1, <<2>>, <<1>>),
    OldRow(Concert, Country2, <<3>>, <<1>>),
    OldRow(Nature, Country2, <<2>>, <<1>>),
    OldRow(Street, Country2, NULL, <<5>>),
    OldRow(Concert, Country1, NULL, NULL),
    OldRow(Street, Country2, <<1>>, NULL) }

NewRow(c, cty, hf, cf, cof) ==
  [category |-> c, country |-> cty, homepage_featured |-> hf,
   category_featured |-> cf, country_featured |-> cof]

NewRows ==
  { NewRow(Nature, Country1, 1, 1, 1),
    NewRow(Street, Country1, 0, 1, 0),
    NewRow(Concert, Country2, 0, 1, 1),
    NewRow(Nature, Country2, 1, 1, 1),
    NewRow(Street, Country2, 0, 0, 0) }

\* The row with id j that holds the cells of r.
TableRow(j, r) ==
  [c \in DOMAIN r \cup {"id", "filename", "caption", "location", "created_at", "updated_at"} |->
     CASE c = "id" -> j
       [] c = "filename" -> StoredName(j)
       [] c = "caption" -> Caption1
       [] c = "location" -> Location1
       [] c \in {"created_at", "updated_at"} -> 1
       [] OTHER -> r[c]]

\* SELECT id FROM photos WHERE homepage_featured = 1 LIMIT 1: one of the rows
\* with priority 1, or none.
currentHero(table) ==
  LET first == {j \in 1..Len(table) : FeaturedCell(table[j], "homepage_featured") = <<1>>}
  IN IF first = {} THEN {0} ELSE first

\* Step 2: INSERT INTO photos_new ... SELECT ..., for the row with id j.
migratedRow(row, hero) ==
  [id |-> row.id, filename |-> row.filename, category |-> row.category,
   caption |-> row.caption, location |-> row.location, country |-> row.country,
   homepage_featured |-> IF row.id = hero THEN 1 ELSE 0,
   category_featured |->
     IF FeaturedCell(row, "category_featured") = NULL THEN 0
     ELSE FeaturedCell(row, "category_featured")[1],
   country_featured |-> 0,
   created_at |-> row.created_at, updated_at |-> row.updated_at]

\* The CHECK constraints of photos_new on a copied row.
NewTableAccepts(row) ==
  /\ row.category \in VALID_CATEGORIES
  /\ \A col \in FeaturedColumns : row[col] \in FeaturedRange(col)

\* The categories step 3 loops over.
MigrationCategories == <<Nature, Street, Concert>>

\* The smallest id of a set of rows: ORDER BY id ASC LIMIT 1.
FirstId(S) == CHOOSE j \in S : \A i \in S : j <= i

\* Step 3 for one category.
fixCategory(table, c) ==
  LET inCategory == {j \in 1..Len(table) : table[j].category = c}
      featured == {j \in inCategory : table[j].category_featured = 1}
  IN IF featured = {}
     THEN [j \in 1..Len(table) |->
             IF inCategory # {} /\ j = FirstId(inCategory)
             THEN [table[j] EXCEPT !.category_featured = 1] ELSE table[j]]
     ELSE [j \in 1..Len(table) |->
             IF j \in featured /\ j # FirstId(featured)
             THEN [table[j] EXCEPT !.category_featured = 0] ELSE table[j]]

\* Step 4: the first row of every country gets country_featured = 1.
setCountryFeatured(table) ==
  [j \in 1..Len(table) |->
     IF j = FirstId({i \in 1..Len(table) : table[i].country = table[j].country})
     THEN [table[j] EXCEPT !.country_featured = 1] ELSE table[j]]

\* A row is in the table when a script starts.
StoreMigrationRow ==
  /\ pc = "Idle" /\ exitCode = <<>>
  /\ Len(photos) < MaxMigrated
  /\ \E r \in (IF variant = "ranked" THEN OldRows ELSE NewRows) :
       photos' = Append(photos, TableRow(Len(photos) + 1, r))
  /\ UNCHANGED <<mvars, qvars>>

\* Steps 1 and 2: BEGIN TRANSACTION, CREATE TABLE photos_new, copy the rows;
\* a row the new table's CHECKs refuse makes the script roll back and exit.
MigrateCopy ==
  /\ pc = "Idle" /\ exitCode = <<>> /\ variant = "ranked"
  /\ pre' = photos
  /\ \E hero \in currentHero(photos) :
       LET copied == [j \in 1..Len(photos) |-> migratedRow(photos[j], hero)]
       IN IF \A j \in 1..Len(copied) : NewTableAccepts(copied[j])
          THEN /\ tx' = copied
               /\ pc' = "Migrating"
               /\ txi' = 1
               /\ failure' = "none"
          ELSE /\ tx' = photos
               /\ pc' = "RolledBack"
               /\ txi' = 0
               /\ failure' = "constraint"
  /\ UNCHANGED <<photos, op, rows, dryRun, errors, clock, qvars>>

\* Step 3, one category of the loop.
MigrateCategory ==
  /\ pc = "Migrating"
  /\ txi <= Len(MigrationCategories)
  /\ tx' = fixCategory(tx, MigrationCategories[txi])
  /\ txi' = txi + 1
  /\ UNCHANGED <<photos, pc, op, rows, dryRun, errors, clock, pre, failure, qvars>>

\* Steps 4 to 7 and COMMIT: the country photos are set, the new table
\* replaces the old one.
MigrateCommit ==
  /\ pc = "Migrating"
  /\ txi > Len(MigrationCategories)
  /\ photos' = setCountryFeatured(tx)
  /\ tx' = setCountryFeatured(tx)
  /\ pc' = "Migrated"
  /\ variant' = "singleton"
  /\ UNCHANGED <<txi, op, rows, dryRun, errors, clock, pre, failure,
                 query, arg, result, exitCode, pvars>>

\* npm run db:validate
Validate ==
  /\ pc \in {"Idle", "Migrated"} /\ exitCode = <<>>
  /\ exitCode' = <<validateConstraints(photos, variant)>>
  /\ UNCHANGED <<photos, mvars, variant, query, arg, result, pvars>>

MigrateNext ==
  \/ StoreMigrationRow
  \/ MigrateCopy
  \/ MigrateCategory
  \/ MigrateCommit
  \/ Validate

MigrateSpec == QInit /\ [][MigrateNext]_vars

\* ------------------------------------------------------ processPhotos
BATCH_SIZE == 10

\* The k-th photo of a call of processPhotos: the newest first, the fourth
\* one a vector drawing.
PhotoAt(k) ==
  [id |-> MaxPhotos + 1 - k,
   filename |-> IF k = SvgAt THEN <<"i", ".", "s", "v", "g">> ELSE StoredName(k)]

\* import.meta.glob: the photos whose file the build has found.
images == {PhotoAt(k).id : k \in (1..MaxPhotos) \ {MissingAt}}

\* imagePath.toLowerCase().endsWith('.svg')
isSvg(photo) ==
  /\ Len(photo.filename) >= 4
  /\ SubSeq(photo.filename, Len(photo.filename) - 3, Len(photo.filename))
       = <<".", "s", "v", "g">>

\* The ProcessedImage of a photo: which photo, whether it is the fallback
\* for a missing image, whether the lightbox image was optimised.
ProcessedImage(photo, found, optimised) ==
  [src |-> photo.id, importedImage |-> found, lightbox |-> optimised]

Settled(call) == call.at \in {"fulfilled", "rejected"}
InFlight(call) == call.at \in {"loading", "optimizing"}

\* The calls of the batch that starts at index at (0-based, as in the code).
Batch(at) == {k \in 1..Len(photoList) : at < k /\ k <= at + BATCH_SIZE}

PInit ==
  /\ photos = <<>>
  /\ tx = <<>>
  /\ txi = 0
  /\ pc = "Idle"
  /\ op = "none"
  /\ rows = <<>>
  /\ dryRun = FALSE
  /\ errors = <<>>
  /\ clock = 1
  /\ pre = <<>>
  /\ failure = "none"
  /\ variant = "singleton"
  /\ query = "none"
  /\ arg = Empty
  /\ result = <<>>
  /\ exitCode = <<>>
  /\ \E n \in 0..MaxPhotos : photoList = [k \in 1..n |-> PhotoAt(k)]
  /\ options \in [includeLightbox : BOOLEAN]
  /\ calls = [k \in 1..Len(photoList) |-> [at |-> "notCalled"]]
  /\ results = <<>>
  /\ batchAt = 0
  /\ ppc = "loop"

\* The loop's test fails: return results.
ReturnResults ==
  /\ ppc = "loop"
  /\ ~ (batchAt < Len(photoList))
  /\ ppc' = "returned"
  /\ UNCHANGED <<photos, mvars, variant, query, arg, result, exitCode,
                 photoList, options, calls, results, batchAt>>

\* batch.map(photo => processPhoto(photo, options)): every call of the batch
\* runs to its first await.
StartBatch ==
  /\ ppc = "loop"
  /\ batchAt < Len(photoList)
  /\ calls' = [k \in 1..Len(photoList) |->
                 IF k \in Batch(batchAt) THEN [at |-> "loading"] ELSE calls[k]]
  /\ ppc' = "awaiting"
  /\ UNCHANGED <<photos, mvars, variant, query, arg, result, exitCode,
                 photoList, options, results, batchAt>>

\* await getImageByPath(imagePath) of one call completes: the image is
\* missing (fallback), or its import fails, or it is found.
ImageLoaded ==
  \E k \in 1..Len(photoList) :
    /\ calls[k].at = "loading"
    /\ \/ /\ photoList[k].id \notin images
          /\ calls' = [calls EXCEPT ![k] =
               [at |-> "fulfilled", value |-> ProcessedImage(photoList[k], FALSE, FALSE)]]
       \/ /\ photoList[k].id \in images
          /\ k = FailingAt
          /\ calls' = [calls EXCEPT ![k] = [at |-> "rejected"]]
       \/ /\ photoList[k].id \in images
          /\ IF options.includeLightbox /\ ~ isSvg(photoList[k])
             THEN calls' = [calls EXCEPT ![k] = [at |-> "optimizing"]]
             ELSE calls' = [calls EXCEPT ![k] =
                    [at |-> "fulfilled", value |-> ProcessedImage(photoList[k], TRUE, FALSE)]]
    /\ UNCHANGED <<photos, mvars, variant, query, arg, result, exitCode,
                   photoList, options, results, batchAt, ppc>>

\* await getImage(...) of one call completes, or throws and is caught.
LightboxDone ==
  \E k \in 1..Len(photoList) :
    /\ calls[k].at = "optimizing"
    /\ \E ok \in (IF k = UnoptimisedAt THEN BOOLEAN ELSE {TRUE}) :
         calls' = [calls EXCEPT ![k] =
           [at |-> "fulfilled", value |-> ProcessedImage(photoList[k], TRUE, ok)]]
    /\ UNCHANGED <<photos, mvars, variant, query, arg, result, exitCode,
                   photoList, options, results, batchAt, ppc>>

\* Promise.all(...) is fulfilled: when every call of the batch is.
allFulfilledWhenOneIs(at) == \E k \in Batch(at) : calls[k].at = "fulfilled"
allFulfilled(at) == \A k \in Batch(at) : calls[k].at = "fulfilled"

\* The values of the calls of a batch, in the order of the batch.
batchResults(at) ==
  [n \in 1..Cardinality(Batch(at)) |->
     IF calls[at + n].at = "fulfilled" THEN calls[at + n].value ELSE NULL]

\* await Promise.all(...) resumes: results.push(...batchResults); i += BATCH_SIZE.
BatchDone ==
  /\ ppc = "awaiting"
  /\ allFulfilled(batchAt)
  /\ results' = results \o batchResults(batchAt)
  /\ batchAt' = batchAt + BATCH_SIZE
  /\ ppc' = "loop"
  /\ UNCHANGED <<photos, mvars, variant, query, arg, result, exitCode,
                 photoList, options, calls>>

\* await Promise.all(...) throws: a call of the batch was rejected.
BatchRejected ==
  /\ ppc = "awaiting"
  /\ \E k \in Batch(batchAt) : calls[k].at = "rejected"
  /\ ppc' = "rejected"
  /\ UNCHANGED <<photos, mvars, variant, query, arg, result, exitCode,
                 photoList, options, calls, results, batchAt>>

ProcessNext ==
  \/ StartBatch
  \/ ImageLoaded
  \/ LightboxDone
  \/ BatchDone
  \/ BatchRejected
  \/ ReturnResults

ProcessSpec == PInit /\ [][ProcessNext]_vars

\* ================================================================= claims
\* What the claims call things, stated from the records and the table the
\* tool started on rather than from the tools' own helper functions.

Max(S) == CHOOSE x \in S : \A y \in S : y <= x

\* The trimmed filename cell of a record, <<>> when it has none.
NameOf(row) == IF "filename" \in DOMAIN row THEN Trim(row.filename) ELSE Empty

Filenames(table) == {table[j].filename : j \in 1..Len(table)}

\* Record n of the CSV repeats the filename of an earlier record or of a row
\* of the table.
DuplicateRecord(n) ==
  /\ NameOf(rows[n]) # Empty
  /\ \/ NameOf(rows[n]) \in Filenames(pre)
     \/ \E m \in 1..(n - 1) : NameOf(rows[m]) = NameOf(rows[n])

\* The stored rows a record of an update CSV identifies: by its id cell when
\* that is not blank, otherwise by its filename cell.
Named(table, row) ==
  IF "id" \in DOMAIN row /\ Trim(row.id) # Empty
  THEN {j \in 1..Len(table) : ParseInt(Trim(row.id)) = <<table[j].id>>}
  ELSE {j \in 1..Len(table) : table[j].filename = NameOf(row)}

HasIdentifier(row) ==
  \/ "id" \in DOMAIN row /\ Trim(row.id) # Empty
  \/ NameOf(row) # Empty

\* The updatable columns record n of an update CSV sets: those it holds a cell
\* for, among the columns of the first record.
SetBy(n) ==
  (DOMAIN rows[n] \cap DOMAIN rows[1]) \
     {"id", "filename", "created_at", "updated_at"}

\* The records of the update CSV that set column col of stored row j.
Writers(j, col) ==
  {n \in 1..Len(rows) : j \in Named(pre, rows[n]) /\ col \in SetBy(n)}

\* The records of the update CSV that write stored row j.
RowWriters(j) ==
  {n \in 1..Len(rows) : j \in Named(pre, rows[n]) /\ SetBy(n) # {}}

\* The value a cell stands for in the table.
CellValue(col, cell) ==
  IF col \in FeaturedColumns THEN ParseInt(Trim(cell))[1] ELSE Trim(cell)

Ended == pc \in {"Committed", "Rejected", "DryRun", "Cancelled", "RolledBack"}

\* C1: a CSV import in which a record has a validation error or a duplicate
\* filename (in the CSV or against the table) leaves the table as it was: no
\* record of the batch is inserted, the valid ones included.
C1_ImportAllOrNothing ==
  (/\ op = "import"
   /\ \E n \in 1..Len(rows) :
         \/ importValidateRow(rows[n], n - 1) # <<>>
         \/ DuplicateRecord(n))
  => photos = pre

\* An import of a valid record together with an invalid one was rejected.
C1_Witness ==
  /\ op = "import" /\ pc = "Rejected"
  /\ \E n, m \in 1..Len(rows) :
        /\ importValidateRow(rows[n], n - 1) = <<>>
        /\ ~DuplicateRecord(n)
        /\ importValidateRow(rows[m], m - 1) # <<>>

\* Every change a committed update CSV makes to the table: each column of each
\* row holds the value of the last record that sets it, or its old value.
UpdateAllApplied ==
  /\ Len(photos) = Len(pre)
  /\ \A j \in 1..Len(pre) :
       \A col \in DOMAIN pre[j] \ {"updated_at"} :
         IF Writers(j, col) = {} THEN photos[j][col] = pre[j][col]
         ELSE photos[j][col] = CellValue(col, rows[Max(Writers(j, col))][col])

\* Every row a committed import CSV adds, after the rows that were there.
ImportAllApplied ==
  /\ Len(photos) = Len(pre) + Len(rows)
  /\ \A j \in 1..Len(pre) : photos[j] = pre[j]
  /\ \A n \in 1..Len(rows) : photos[Len(pre) + n].filename = NameOf(rows[n])

\* C2: the row writes of a CSV import and of a CSV update run in one
\* transaction: a reader of the table sees the table as it was before the
\* call or, once the call has committed, with every record of the batch
\* applied; when a write fails the earlier writes are rolled back.
C2_BatchInOneTransaction ==
  op \in {"import", "update"} =>
    /\ photos = pre \/ pc = "Committed"
    /\ (pc = "Committed" /\ op = "import") => ImportAllApplied
    /\ (pc = "Committed" /\ op = "update") => UpdateAllApplied
    /\ pc = "RolledBack" => photos = pre /\ tx = pre

\* The second write of an update failed on a constraint after the first
\* record had changed a row inside the transaction.
C2_Witness ==
  /\ op = "update" /\ pc = "RolledBack" /\ failure = "constraint"
  /\ txi = 2
  /\ \E j \in 1..Len(pre) : 1 \in RowWriters(j)

\* C3: no two rows of the table have the same filename, and an add or an
\* import that brings a filename of an existing row (or of an earlier record
\* of the same CSV) is rejected before any write, the table being left alone.
C3_FilenameUnique ==
  /\ \A i, j \in 1..Len(photos) :
        i # j => photos[i].filename # photos[j].filename
  /\ (op = "add" /\ rows[1].filename \in Filenames(pre))
        => pc \in {"Received", "Rejected", "Cancelled"} /\ photos = pre
  /\ (op = "import" /\ \E n \in 1..Len(rows) : DuplicateRecord(n))
        => pc \in {"Received", "Validating", "Rejected"} /\ photos = pre

\* An import of a record whose filename is already in the table was rejected
\* with the duplicate reported.
C3_Witness ==
  /\ op = "import" /\ pc = "Rejected"
  /\ \E n \in 1..Len(rows) :
        /\ NameOf(rows[n]) \in Filenames(pre)
        /\ \E k \in 1..Len(errors) :
              errors[k] = Err(n + 1, "filename", "exists in database")
  /\ Cardinality(Filenames(photos)) = Len(photos)

\* C4: caption, location and country of every row are non-empty (and not
\* blank), and an update CSV with a blank or whitespace-only cell in one of
\* these columns is rejected by validation, the table being left alone.
C4_RequiredTextNonEmpty ==
  /\ \A j \in 1..Len(photos) : \A col \in RequiredText :
        Len(photos[j][col]) > 0 /\ Trim(photos[j][col]) # Empty
  /\ (/\ op = "update"
      /\ \E n \in 1..Len(rows) : \E col \in RequiredText \cap SetBy(n) :
            Trim(rows[n][col]) = Empty)
     => pc \in {"Received", "Rejected"} /\ photos = pre

\* An update naming an existing row with a whitespace-only caption cell and an
\* empty location cell was rejected.
C4_Witness ==
  /\ op = "update" /\ pc = "Rejected"
  /\ \E n \in 1..Len(rows) :
        /\ Named(pre, rows[n]) # {}
        /\ {"caption", "location"} \subseteq SetBy(n)
        /\ rows[n].caption = Blank /\ rows[n].location = Empty
        /\ \E k \in 1..Len(errors) : errors[k] = Err(n + 1, "caption", "empty")

\* C5: every row's (category, filename) pair names an asset file that exists
\* at the path derived from the category and the filename.
C5_AssetExists ==
  \A j \in 1..Len(photos) :
     ExistsSync(PhotoPath(photos[j].category, photos[j].filename))

\* A record of a CSV carries a category value outside the enum: any cell of
\* an import record, and for an update a cell that is not blank or that lies
\* in a column the update writes.
ForeignCategory(n) ==
  /\ "category" \in DOMAIN rows[n]
  /\ rows[n].category \notin VALID_CATEGORIES
  /\ \/ op = "import"
     \/ Trim(rows[n].category) # Empty
     \/ "category" \in SetBy(n)

NoMatch(n) == HasIdentifier(rows[n]) /\ Named(pre, rows[n]) = {}

Reported(n, field, message) ==
  \E k \in 1..Len(errors) : errors[k] = Err(n + 1, field, message)

\* The id cell of a record is not blank and does not parse as a number.
UnparsableId(row) ==
  /\ "id" \in DOMAIN row /\ Trim(row.id) # Empty
  /\ IsNaN(ParseInt(Trim(row.id)))

\* C8: an update CSV with a record whose identifier matches no row ends
\* rejected, no row modified, and with an error reported for that record:
\* not found, or "ID must be a number" when the id does not parse.
C8_UnknownIdentifierReported ==
  (op = "update" /\ Ended) =>
    \A n \in 1..Len(rows) :
      NoMatch(n) =>
        /\ pc = "Rejected"
        /\ photos = pre
        /\ IF UnparsableId(rows[n]) THEN Reported(n, "id", "not a number")
           ELSE \/ Reported(n, "id", "not found")
                \/ Reported(n, "filename", "not found")

\* C9: an update never changes the id or the filename of a row, inside the
\* transaction or in the committed table, also when a record holds an id and
\* a filename other than the stored one.
C9_IdAndFilenameKept ==
  op = "update" =>
    /\ Len(photos) = Len(pre) /\ Len(tx) = Len(pre)
    /\ \A j \in 1..Len(pre) :
         /\ photos[j].id = pre[j].id /\ photos[j].filename = pre[j].filename
         /\ tx[j].id = pre[j].id /\ tx[j].filename = pre[j].filename

\* An update committed whose record names a row by id and holds a filename
\* other than that row's.
C9_Witness ==
  /\ op = "update" /\ pc = "Committed"
  /\ \E n \in 1..Len(rows) : \E j \in Named(pre, rows[n]) :
        /\ {"id", "filename"} \subseteq DOMAIN rows[n]
        /\ NameOf(rows[n]) # Empty
        /\ NameOf(rows[n]) # pre[j].filename
        /\ photos[j] # pre[j]

\* The checks on the records and against the table that precede the writes.
ChecksPassed ==
  CASE op = "add" -> rows[1].filename \notin Filenames(pre)
    [] op = "import" ->
         /\ rows # <<>>
         /\ \A n \in 1..Len(rows) :
               importValidateRow(rows[n], n - 1) = <<>> /\ ~DuplicateRecord(n)
    [] op = "update" ->
         /\ rows # <<>>
         /\ \A n \in 1..Len(rows) :
               /\ updateValidateRow(rows[n], n - 1, DOMAIN rows[1]) = <<>>
               /\ Named(pre, rows[n]) # {}
    [] OTHER -> FALSE

\* C10 as stated: a call is received, validated, and then either committing
\* and committed, or rejected; it is nowhere else.
C10_TwoOutcomesOnly ==
  pc \in {"Idle", "Received", "Validating", "AllValid", "Committing",
          "Committed", "Rejected"}

\* C10, amended: a call also ends as a dry run, cancelled at the prompt, or
\* rolled back from the write phase.  The first write follows the validation
\* of every record and the checks against the table; only the write phase
\* holds uncommitted writes; a call rejected, dry-run, cancelled or rolled
\* back leaves the table as it was, and no part of a batch is ever visible.
C10_ValidateThenCommit ==
  /\ pc \in {"Idle", "Received", "Validating", "AllValid", "Committing",
             "Committed", "Rejected", "DryRun", "Cancelled", "RolledBack"}
  /\ pc \in {"AllValid", "Committing", "Committed", "RolledBack"} => ChecksPassed
  /\ tx # photos => pc = "Committing"
  /\ pc # "Committed" => photos = pre
  /\ pc = "Rejected" => errors # <<>> /\ tx = pre
  /\ (pc = "Committed" /\ op = "import") => ImportAllApplied
  /\ (pc = "Committed" /\ op = "update") => UpdateAllApplied

\* A two-record import stands in its write phase with the first record
\* written inside the transaction and not yet visible.
C10_Witness ==
  /\ op = "import" /\ pc = "Committing"
  /\ txi = 2 /\ Len(rows) = 2
  /\ Len(tx) = Len(pre) + 1
  /\ photos = pre

\* The elements of a sequence.
Range(seq) == {seq[k] : k \in 1..Len(seq)}

\* Every violation the checks of the running CSV tool find in the records,
\* whichever check finds it: the per-record validation and the check against
\* the table the tool started on.
AllViolations ==
  IF op = "import"
  THEN Range(importValidateRows(rows, Len(rows))) \cup Range(checkDuplicates(rows, pre))
  ELSE Range(updateValidateRows(rows, DOMAIN rows[1], Len(rows)))
       \cup Range(checkPhotosExist(rows, pre))

\* The CSV is one the tool validates record by record: not empty, and with
\* the columns the tool requires.
RowsAreValidated ==
  /\ rows # <<>>
  /\ op = "import" => ~importParseCSV(rows).fatal
  /\ op = "update" => ~updateParseCSV(rows).fatal

\* C11: a rejected CSV import or update reports every violation of the batch,
\* of every kind (field validation, missing asset, duplicate filename, unknown
\* identifier), so the records its error list names are exactly the invalid
\* ones.
C11_EveryViolationReported ==
  (op \in {"import", "update"} /\ pc = "Rejected" /\ RowsAreValidated) =>
    /\ Range(errors) = AllViolations
    /\ \A n \in 1..Len(rows) :
         (\E e \in AllViolations : e.row = n + 1)
           <=> (\E k \in 1..Len(errors) : errors[k].row = n + 1)

\* The error list a CSV tool ends rejected with, from the records and the
\* table it started on: the errors of the first check that finds any.
Rejection ==
  LET parsed == IF op = "import" THEN importParseCSV(rows) ELSE updateParseCSV(rows)
  IN IF parsed.errors # <<>> THEN parsed.errors
     ELSE IF op = "import" THEN checkDuplicates(rows, pre)
          ELSE checkPhotosExist(rows, pre)

\* C12: a CSV import or update run with --dry-run never writes, inside a
\* transaction or outside, whatever the input; it runs the validation and the
\* duplicate / existence checks of a real run: a run is rejected, dry or not,
\* exactly with the errors the records and the table determine, and a dry run
\* ends as a dry run only when every check has passed.
C12_DryRunChangesNothing ==
  op \in {"import", "update"} =>
    /\ dryRun =>
         /\ photos = pre /\ tx = pre
         /\ pc \in {"Received", "Validating", "AllValid", "Rejected", "DryRun"}
    /\ pc = "DryRun" => dryRun /\ ChecksPassed /\ Rejection = <<>>
    /\ pc = "Rejected" => errors = Rejection /\ errors # <<>>
    /\ (Ended /\ Rejection # <<>>) => pc = "Rejected"

\* A dry-run update of two records that name stored rows and set columns
\* ended as a dry run.
C12_Witness ==
  /\ dryRun /\ pre # <<>>
  /\ op = "update" /\ pc = "DryRun" /\ Len(rows) = 2
  /\ \A n \in 1..2 : Named(pre, rows[n]) # {} /\ SetBy(n) # {}

\* C13: the alt text of every stored row is non-empty and is exactly the
\* row's current country, ", ", its location, " - " and its caption, each of
\* the three parts non-empty.
C13_AltIsTemplate ==
  \A j \in 1..Len(photos) :
    LET r == photos[j]
        a == getPhotoAlt(r)
        c == Len(r.country)
        l == Len(r.location)
    IN /\ a # <<>>
       /\ Len(a) = c + l + Len(r.caption) + 5
       /\ c > 0 /\ l > 0 /\ Len(r.caption) > 0
       /\ SubSeq(a, 1, c) = r.country
       /\ SubSeq(a, c + 1, c + 2) = <<",", " ">>
       /\ SubSeq(a, c + 3, c + 2 + l) = r.location
       /\ SubSeq(a, c + 3 + l, c + 5 + l) = <<" ", "-", " ">>
       /\ SubSeq(a, c + 6 + l, Len(a)) = r.caption

\* An update committed a new caption for a row, and the row's alt text
\* changed with it.
C13_Witness ==
  /\ op = "update" /\ pc = "Committed"
  /\ \E j \in 1..Len(pre) :
        /\ photos[j].caption # pre[j].caption
        /\ getPhotoAlt(photos[j]) # getPhotoAlt(pre[j])

\* C14: for every stored row the path validation checks for its category and
\* filename, the path the JSON export writes and the source the page loads
\* the image from are the path getPhotoPath gives: the export's src equals
\* it, and the validated file is the file the loader reads for it.
C14_OnePathEverywhere ==
  \A j \in 1..Len(photos) :
    LET r == photos[j]
    IN /\ photoToPortfolioImageSrc(r) = getPhotoPath(r)
       /\ PhotoPath(r.category, Trim(r.filename)) = processPhotoSource(r)

\* C15: a tool run that starts on a table with exactly one row of
\* homepage_featured = 1 leaves exactly one such row, so that the hero query
\* has one possible result.
C15_ExactlyOneHero ==
  Cardinality(homepageFeaturedRows(pre)) = 1 =>
    /\ Cardinality(homepageFeaturedRows(photos)) = 1
    /\ Cardinality(getHomepageFeatured(photos)) = 1

\* C16: in every table the tools reach at most one row of each category has
\* category_featured = 1, so the navigation query returns no two photos of
\* one category.
C16_OneNavigationPhotoPerCategory ==
  \A c \in VALID_CATEGORIES : Cardinality(categoryNavigationRows(photos, c)) <= 1

\* C17: in every table the tools reach every country present has exactly
\* one row with country_featured = 1, the row the country navigation query
\* returns for it.
C17_OneRepresentativePerCountry ==
  \A c \in Countries(photos) : Cardinality(countryFeaturedRows(photos, c)) = 1

\* The ids of the rows a query returned, and of the rows with a homepage
\* priority.
Returned == {result[k].id : k \in 1..Len(result)}

HomepageRanked == {j \in 1..Len(photos) : photos[j].homepage_featured # NULL}

\* C18: the ranked homepage query returns only rows with a non-null homepage
\* priority, each once, in non-decreasing priority order, at most 7 of them;
\* when it is complete it has returned 7 rows or every such row, and no row
\* left out has a smaller priority than a row returned.
C18_RankedHomepageTopSeven ==
  query = "getHomepageFeaturedRanked" =>
    /\ Len(result) <= HomepageSlots
    /\ Cardinality(Returned) = Len(result)
    /\ \A k \in 1..Len(result) :
         /\ result[k].homepage_featured # NULL
         /\ result[k].id \in 1..Len(photos) /\ photos[result[k].id] = result[k]
    /\ \A k \in 1..(Len(result) - 1) :
         result[k].homepage_featured[1] <= result[k + 1].homepage_featured[1]
    /\ Complete =>
         /\ \/ Len(result) = HomepageSlots
            \/ Returned = HomepageRanked
         /\ \A j \in HomepageRanked \ Returned : \A k \in 1..Len(result) :
               result[k].homepage_featured[1] <= photos[j].homepage_featured[1]

\* The ranked homepage query is complete on a table where more than 7 rows
\* have a priority: it returned 7, not in id order, and left one out.
C18_Witness ==
  /\ query = "getHomepageFeaturedRanked" /\ Complete
  /\ Cardinality(HomepageRanked) > HomepageSlots
  /\ Len(result) = HomepageSlots
  /\ \E k \in 1..(Len(result) - 1) : result[k].id > result[k + 1].id
  /\ HomepageRanked \ Returned # {}

CategoryPriority(row) ==
  IF variant = "ranked"
  THEN IF row.category_featured = NULL THEN 0 ELSE row.category_featured[1]
  ELSE row.category_featured

CategoryFeaturedRows(c) ==
  {j \in 1..Len(photos) :
     photos[j].category = c /\ CategoryPriority(photos[j]) # 0}

\* C20: the category-featured query for category c returns rows of category
\* c with a non-null, non-zero category priority only, each once, in
\* ascending priority order, and when it is complete it has returned every
\* such row.
C20_CategoryFeaturedExact ==
  query \in {"getAllCategoryPhotos", "getCategoryFeatured"} =>
    /\ Cardinality(Returned) = Len(result)
    /\ Returned \subseteq CategoryFeaturedRows(arg)
    /\ \A k \in 1..Len(result) : photos[result[k].id] = result[k]
    /\ \A k \in 1..(Len(result) - 1) :
         CategoryPriority(result[k]) <= CategoryPriority(result[k + 1])
    /\ Complete => Returned = CategoryFeaturedRows(arg)

\* The category-featured query of the current db.ts is complete with rows
\* out of id order, on a table that also holds a row of the category with
\* priority 0 and a featured row of another category.
C20_Witness ==
  /\ query = "getAllCategoryPhotos" /\ Complete
  /\ Len(result) >= 3
  /\ \E k \in 1..(Len(result) - 1) : result[k].id > result[k + 1].id
  /\ \E j \in 1..Len(photos) :
        photos[j].category = arg /\ photos[j].category_featured = 0
  /\ \E j \in 1..Len(photos) :
        photos[j].category # arg /\ photos[j].category_featured > 0

C22_CountryRowsByLocation ==
  query \in CountryQueries =>
    /\ Cardinality(Returned) = Len(result)
    /\ \A k \in 1..Len(result) :
         /\ photos[result[k].id] = result[k]
         /\ result[k].country = arg
    /\ Complete => Returned = {j \in 1..Len(photos) : photos[j].country = arg}
    /\ \A k, m \in 1..Len(result) :
         k < m => TextCompare(result[k].location, result[m].location) <= 0

\* C23: a per-category query called with a category outside the enum fails
\* with InvalidArgument and returns nothing, empty list included; with a
\* category of the enum it raises no error, also when no row matches.
C23_UnknownCategoryIsAnError ==
  query \in CategoryQueries =>
    IF arg \in CategoriesOf(variant)
    THEN failure = "none"
    ELSE failure = "InvalidArgument" /\ ~Complete

\* C29: getCountryPhotos returns at least one row for every country that
\* getAllCountries returns.
C29_NoEmptyCountryPage ==
  (query \in CountryQueries /\ Complete /\ arg \in getAllCountries(photos))
    => Len(result) >= 1

\* A cell holds an integer: digits, after an optional sign.
IsIntegerText(t) ==
  LET body == IF t # <<>> /\ Head(t) \in {"-", "+"} THEN Tail(t) ELSE t
  IN body # <<>> /\ \A i \in 1..Len(body) : IsDigit(body[i])

\* Record n of the CSV has a featured cell that is not blank and is not an
\* integer of the column's range.
BadFeaturedCell(n) ==
  \E col \in FeaturedColumns :
    /\ col \in DOMAIN rows[n]
    /\ op = "update" => col \in SetBy(n)
    /\ Trim(rows[n][col]) # Empty
    /\ ~(/\ IsIntegerText(Trim(rows[n][col]))
         /\ ParseInt(Trim(rows[n][col]))[1] \in FeaturedRange(col))

\* C24: every row of the table, committed or written in the open
\* transaction, has homepage_featured and country_featured in {0,1} and
\* category_featured in 0..4; a CSV with a record whose featured cell is
\* present and is not an integer in that range is rejected by the validation,
\* before any write.
C24_FeaturedInRange ==
  /\ \A table \in {photos, tx} : \A j \in 1..Len(table) :
       \A col \in FeaturedColumns : table[j][col] \in FeaturedRange(col)
  /\ (op \in {"import", "update"} /\ \E n \in 1..Len(rows) : BadFeaturedCell(n))
       => /\ pc \in {"Received", "Validating", "Rejected"}
          /\ photos = pre /\ tx = pre

\* C28: a CSV import or update that passed every check and was confirmed
\* commits: no write of its transaction fails on a constraint of the table.
C28_ValidatedBatchCommits ==
  (op \in {"import", "update"} /\ pc = "RolledBack") => failure # "constraint"

\* C25: after a migration that committed, the table passes every check of
\* the validation script (one hero, one featured row for each of nature,
\* street and concert, one featured row per country, no NULL in a featured
\* column), and it has the rows it had before, with their ids and filenames.
C25_MigratedTableValidates ==
  pc = "Migrated" =>
    /\ validateConstraints(photos, variant) = 0
    /\ Len(photos) = Len(pre)
    /\ \A j \in 1..Len(photos) :
         photos[j].id = pre[j].id /\ photos[j].filename = pre[j].filename

\* C26 as stated: the validation exits 0 exactly when there is one hero, one
\* featured row for each of the three categories, one country_featured = 1
\* row for every country and no NULL in any featured column.
C26_ExitZeroIffAllFourHold ==
  exitCode # <<>> =>
    (exitCode = <<0>> <=>
       /\ CountFlagged(photos, "homepage_featured", "", Empty) = 1
       /\ \A c \in {Nature, Street, Concert} :
            CountFlagged(photos, "category_featured", "category", c) = 1
       /\ \A c \in Countries(photos) :
            CountFlagged(photos, "country_featured", "country", c) = 1
       /\ \A j \in 1..Len(photos) : \A col \in FeaturedColumns :
            FeaturedCell(photos[j], col) # NULL)

\* C26 amended: the validation exits 0 exactly when there is one hero, one
\* featured row for each of the three categories, no NULL in
\* homepage_featured or category_featured and, when the table has a
\* country_featured column, one country_featured = 1 row for every country
\* and no NULL in that column; otherwise it exits 1.
C26_ExitZeroIffChecksOfTheTableHold ==
  exitCode # <<>> =>
    /\ exitCode \in {<<0>>, <<1>>}
    /\ exitCode = <<0>> <=>
         /\ Cardinality({j \in 1..Len(photos) :
                          FeaturedCell(photos[j], "homepage_featured") = <<1>>}) = 1
         /\ \A c \in {Nature, Street, Concert} :
              Cardinality({j \in 1..Len(photos) :
                             /\ photos[j].category = c
                             /\ FeaturedCell(photos[j], "category_featured") = <<1>>}) = 1
         /\ \A j \in 1..Len(photos) :
              /\ FeaturedCell(photos[j], "homepage_featured") # NULL
              /\ FeaturedCell(photos[j], "category_featured") # NULL
         /\ variant = "singleton" =>
              /\ \A c \in Countries(photos) :
                   Cardinality({j \in 1..Len(photos) :
                                  /\ photos[j].country = c
                                  /\ photos[j].country_featured = 1}) = 1
              /\ \A j \in 1..Len(photos) :
                   FeaturedCell(photos[j], "country_featured") # NULL

\* The validation has exited 0 on a table with a country_featured column and
\* rows of two countries.
C26_Witness ==
  /\ exitCode = <<0>>
  /\ variant = "singleton"
  /\ Cardinality(Countries(photos)) = 2

\* C27: processPhotos returns exactly one processed image per input photo, in
\* input order; never more than 10 processPhoto calls are in flight; a call
\* of a later batch has started only if every call of the earlier batches
\* has settled.
C27_BatchesOfTen ==
  /\ ppc = "returned" =>
       /\ Len(results) = Len(photoList)
       /\ \A k \in 1..Len(photoList) : results[k] # NULL /\ results[k].src = photoList[k].id
  /\ Cardinality({k \in 1..Len(calls) : InFlight(calls[k])}) <= 10
  /\ \A k \in 1..Len(calls) : \A j \in 1..Len(calls) :
       (calls[k].at # "notCalled" /\ (j - 1) \div 10 < (k - 1) \div 10)
         => Settled(calls[j])

\* processPhotos has returned the images of more photos than one batch holds.
C27_Witness ==
  /\ ppc = "returned"
  /\ Len(results) > 10

\* C30: in a CSV update that committed, a record that holds both an id and a
\* filename wrote the row that was checked: the stored row with that id has
\* that filename.
C30_RowCheckedIsRowWritten ==
  (op = "update" /\ pc = "Committed") =>
    \A n \in 1..Len(rows) :
      (~Falsy(Opt(rows[n], "id")) /\ ~Falsy(Opt(rows[n], "filename"))) =>
        \A j \in Targets(pre, rows[n]) :
          (RowWriters(j) # {} => pre[j].filename = Trim(rows[n].filename))

====
